---- MODULE Spec2Model ----
(***************************************************************************)
(* A model of two parts of InaSAFE:                                        *)
(*   - safe/postprocessors/gender_postprocessor.py : GenderPostprocessor   *)
(*   - safe/common/qgis_vector_tools.py : points_to_rectangles,            *)
(*     union_geometry, split_by_polygon                                    *)
(* Each part has its own specification (SpecGender, SpecRect, SpecUnion,   *)
(* SpecSplit); the variables of the other parts stay at their idle value.  *)
(***************************************************************************)
EXTENDS Integers, Sequences, FiniteSets

VARIABLES
    \* ---- GenderPostprocessor
    population_total,   \* self.population_total : None or a number
    female_ratio,       \* self.female_ratio     : None or a number
    results,            \* the result sink fed by _append_result
    outcome,            \* the last call on the postprocessor and how it ended
    setup_called,       \* history: setup() was called since construction / last clear()
    round_half_even,    \* the interpreter's round(): half-to-even (TRUE) or half-away (FALSE)
    \* ---- qgis_vector_tools, common to the three functions
    pc,                 \* position of the running function
    cursor,             \* number of features the loop has consumed
    vector,             \* the input layer (points for points_to_rectangles)
    request,            \* the feature filter: the set of feature ids it lets through
    error,              \* the exception that ended the function, or "none"
    \* ---- points_to_rectangles
    dx, dy,
    polygons,           \* the layer being built
    \* ---- union_geometry
    result_geometry,
    \* ---- split_by_polygon
    polygon,
    mark_value,
    result_layer,
    new_field_added,
    target_field_index, \* a local that is unbound until assigned
    new_attributes      \* a local that is unbound until assigned

genderVars == <<population_total, female_ratio, results, outcome, setup_called,
                round_half_even>>
commonVars == <<pc, cursor, vector, request, error>>
rectVars   == <<dx, dy, polygons>>
unionVars  == <<result_geometry>>
splitVars  == <<polygon, mark_value, result_layer, new_field_added,
                target_field_index, new_attributes>>
vars == <<genderVars, commonVars, rectVars, unionVars, splitVars>>

\* Python's None, and a local variable that has no binding yet.
None == <<>>
Some(v) == <<v>>
Unbound == <<>>
Bound(v) == <<v>>

\* The idle values of the parts a specification does not exercise.
GenderIdle ==
    /\ population_total = None /\ female_ratio = None /\ results = <<>>
    /\ outcome = [op |-> "init", error |-> "none", params |-> None]
    /\ setup_called = FALSE /\ round_half_even = FALSE
CommonIdle ==
    /\ pc = "idle" /\ cursor = 0 /\ vector = None /\ request = {} /\ error = "none"
RectIdle == dx = 0 /\ dy = 0 /\ polygons = None
UnionIdle == result_geometry = None
SplitIdle ==
    /\ polygon = None /\ mark_value = None /\ result_layer = None
    /\ new_field_added = FALSE /\ target_field_index = Unbound
    /\ new_attributes = Unbound

(***************************************************************************)
(* Numbers.  Python floats are modelled as exact rationals <<num, den>>    *)
(* with den > 0; every value that occurs is non-negative.                  *)
(***************************************************************************)
Q(n, d) == <<n, d>>
Mul(a, b) == <<a[1] * b[1], a[2] * b[2]>>
Add(a, b) ==
    IF a[2] = b[2] THEN <<a[1] + b[1], a[2]>>
    ELSE <<a[1] * b[2] + b[1] * a[2], a[2] * b[2]>>

\* int(round(q)) for q >= 0: the nearest integer; a tie goes to the even
\* neighbour (Python 3) or away from zero (Python 2).
Round(q, halfEven) ==
    LET fl == q[1] \div q[2]
        twiceRem == 2 * (q[1] % q[2])
    IN  IF twiceRem < q[2] THEN fl
        ELSE IF twiceRem > q[2] THEN fl + 1
        ELSE IF halfEven /\ fl % 2 = 0 THEN fl
        ELSE fl + 1

(***************************************************************************)
(* GenderPostprocessor (gender_postprocessor.py).                          *)
(* AbstractPostprocessor lives outside these two files: its helpers        *)
(* are modelled from the specification.  _raise_error signals a sequencing *)
(* error and ends the call; _append_result appends (name, value, metadata) *)
(* to the accumulated results; the base setup/process/clear template       *)
(* methods add nothing to the state modelled here.                         *)
(***************************************************************************)

\* How many successful process() calls a behaviour may hold.
MaxProcess == 2

\* The values setup() is given: population_total >= 0, female_ratio in [0,1].
Populations == {Q(0, 1), Q(1, 1), Q(5, 2), Q(1000, 1)}
Ratios == {Q(0, 1), Q(1, 2), Q(1, 1)}
Params == [population_total : Populations, female_ratio : Ratios]

\* The constants of the indicator formulas.
HygienePacksRate == Q(7937, 10000)
LactatingRiceKg == Q(33782, 1000000)
PregnantRiceKg == Q(12810, 1000000)
DaysRatio == Q(7 \div 7, 1)
Two == Q(2, 1)

\* AbstractPostprocessor._append_result(name, result, metadata)
_append_result(sink, name, value, meta) ==
    Append(sink, [name |-> name, value |-> value, metadata |-> meta])

\* AbstractPostprocessor._raise_error: the call ends with a sequencing error.
_raise_error(op, params) == [op |-> op, error |-> "SequencingError", params |-> params]
Returned(op, params) == [op |-> op, error |-> "none", params |-> params]

NeedsClearSlip == population_total # None /\ female_ratio = None
\* setup: 'if self.population_total is not None or self.female_ratio is not None'
NeedsClear == population_total # None \/ female_ratio # None

\* process: 'if self.population_total is None or self.female_ratio is None'
NeedsSetup == population_total = None \/ female_ratio = None

ClearedFemaleRatioKept == female_ratio
\* clear: 'self.female_ratio = None'
ClearedFemaleRatio == None
\* clear: 'self.population_total = None'
ClearedPopulationTotal == None

\* _calculate_total
TotalResult(P, halfEven) == Round(P, halfEven)

\* _calculate_females
FemalesResult(P, r, halfEven) == Round(Mul(P, r), halfEven)

HygienePacksOfRoundedFemales(P, r, halfEven) ==
    Round(Mul(Mul(Q(FemalesResult(P, r, halfEven), 1), HygienePacksRate), DaysRatio),
          halfEven)
\* _calculate_weekly_hygene_packs
HygienePacksResult(P, r, halfEven) ==
    Round(Mul(Mul(Mul(P, r), HygienePacksRate), DaysRatio), halfEven)

\* _calculate_weekly_increased_calories
RiceResult(P, r, halfEven) ==
    LET myLactKg == Mul(Mul(Mul(P, r), Two), LactatingRiceKg)
        myPregKg == Mul(Mul(Mul(P, r), Two), PregnantRiceKg)
    IN  Round(Add(myLactKg, myPregKg), halfEven)

NoMeta == None
HygieneMeta == Some("Females hygiene packs for weekly use")
RiceMeta == Some("Additional rice kg per week for pregnant and lactating women")

\* The four _calculate_* calls of process(), in order.
Calculate(sink, P, r, halfEven) ==
    LET s1 == _append_result(sink, "Total", TotalResult(P, halfEven), NoMeta)
        s2 == _append_result(s1, "Female population",
                             FemalesResult(P, r, halfEven), NoMeta)
        s3 == _append_result(s2, "Weekly hygiene packs",
                             HygienePacksResult(P, r, halfEven), HygieneMeta)
    IN  _append_result(s3, "Additional weekly rice kg for pregnant and lactating women",
                       RiceResult(P, r, halfEven), RiceMeta)

GeometryUnchanged == UNCHANGED <<commonVars, rectVars, unionVars, splitVars>>

\* GenderPostprocessor.setup(params)
Setup(params) ==
    /\ setup_called' = TRUE
    /\ IF NeedsClear
       THEN /\ outcome' = _raise_error("setup", Some(params))
            /\ UNCHANGED <<population_total, female_ratio>>
       ELSE /\ population_total' = Some(params.population_total)
            /\ female_ratio' = Some(params.female_ratio)
            /\ outcome' = Returned("setup", Some(params))
    /\ UNCHANGED <<results, round_half_even>>
    /\ GeometryUnchanged

\* GenderPostprocessor.process()
Process ==
    /\ IF NeedsSetup
       THEN /\ outcome' = _raise_error("process", None)
            /\ UNCHANGED results
       ELSE /\ Len(results) < 4 * MaxProcess
            /\ results' = Calculate(results, population_total[1], female_ratio[1],
                                    round_half_even)
            /\ outcome' = Returned("process", None)
    /\ UNCHANGED <<population_total, female_ratio, setup_called, round_half_even>>
    /\ GeometryUnchanged

\* GenderPostprocessor.clear()
Clear ==
    /\ population_total' = ClearedPopulationTotal
    /\ female_ratio' = ClearedFemaleRatio
    /\ setup_called' = FALSE
    /\ outcome' = Returned("clear", None)
    /\ UNCHANGED <<results, round_half_even>>
    /\ GeometryUnchanged

\* GenderPostprocessor.__init__, under either rounding rule of the interpreter.
InitGender ==
    /\ population_total = None /\ female_ratio = None /\ results = <<>>
    /\ outcome = [op |-> "init", error |-> "none", params |-> None]
    /\ setup_called = FALSE
    /\ round_half_even \in BOOLEAN
    /\ CommonIdle /\ RectIdle /\ UnionIdle /\ SplitIdle

SetupCall == \E params \in Params : Setup(params)

NextGender == SetupCall \/ Process \/ Clear

SpecGender == InitGender /\ [][NextGender]_vars

(***************************************************************************)
(* Claims about GenderPostprocessor, checked under SpecGender.             *)
(***************************************************************************)
SequencingErrorRaised == outcome'.error = "SequencingError"

\* C1: process() with no setup() since construction or the last clear()
\* signals a sequencing error, and so does a setup() that follows another
\* setup() with no clear() in between, whatever calls came before.
C1_SequencingErrors ==
    [][ /\ (outcome'.op = "process" /\ ~setup_called) => SequencingErrorRaised
        /\ (outcome'.op = "setup" /\ setup_called) => SequencingErrorRaised ]_vars

\* C1 happens: a second setup() was refused after results had been produced.
C1_Witness ==
    /\ outcome.op = "setup" /\ outcome.error = "SequencingError"
    /\ setup_called /\ Len(results) >= 4

AbsDiff(a, b) == IF a >= b THEN a - b ELSE b - a
\* v is an integer nearest to the rational q: q rounded once, under either tie rule.
IsNearest(v, q) == v \in Int /\ 2 * AbsDiff(v * q[2], q[1]) <= q[2]

ProcessReturned == outcome'.op = "process" /\ outcome'.error = "none"

\* C2: a successful process() appends exactly four results, in the order Total,
\* Female population, Weekly hygiene packs, Additional weekly rice kg; each value
\* is its formula rounded once at the end; P = 1000, r = 0.5 gives 1000, 500, 397, 47.
C2_FourIndicators ==
    [][ ProcessReturned =>
          LET P == population_total[1]
              r == female_ratio[1]
              n == Len(results)
              new(i) == results'[n + i]
          IN  /\ Len(results') = n + 4
              /\ SubSeq(results', 1, n) = results
              /\ new(1).name = "Total"
              /\ IsNearest(new(1).value, P)
              /\ new(2).name = "Female population"
              /\ IsNearest(new(2).value, Mul(P, r))
              /\ new(3).name = "Weekly hygiene packs"
              /\ IsNearest(new(3).value, Mul(Mul(P, r), Q(7937, 10000)))
              /\ new(4).name = "Additional weekly rice kg for pregnant and lactating women"
              /\ IsNearest(new(4).value,
                           Mul(Mul(Mul(P, r), Q(2, 1)), Q(33782 + 12810, 1000000)))
              /\ (P = Q(1000, 1) /\ r = Q(1, 2)) =>
                    /\ new(1).value = 1000 /\ new(2).value = 500
                    /\ new(3).value = 397 /\ new(4).value = 47 ]_vars

\* C2 happens: process() has run for P = 1000, r = 0.5, and for a tie (P = 1, r = 0.5).
C2_Witness ==
    /\ outcome.op = "process" /\ outcome.error = "none"
    /\ population_total = Some(Q(1000, 1)) /\ female_ratio = Some(Q(1, 2))
    /\ Len(results) = 8 /\ results[8].value = 47
    /\ results[1].value = 1 /\ results[2].value \in {0, 1}

\* C3: clear() resets both scalars to None from any state; a setup() right
\* after a clear() succeeds and stores the values it was given; a process()
\* right after a successful setup() succeeds.
C3_ClearThenSetup ==
    [][ /\ outcome'.op = "clear" =>
              /\ population_total' = None /\ female_ratio' = None
              /\ outcome'.error = "none"
        /\ (outcome.op = "clear" /\ outcome'.op = "setup") =>
              /\ outcome'.error = "none"
              /\ population_total' = Some(outcome'.params[1].population_total)
              /\ female_ratio' = Some(outcome'.params[1].female_ratio)
        /\ (outcome.op = "setup" /\ outcome.error = "none" /\ outcome'.op = "process") =>
              outcome'.error = "none" ]_vars

\* C3 happens: after a first round, clear() was followed by a setup() with another
\* population and a process(), and both succeeded.
C3_Witness ==
    /\ outcome.op = "process" /\ outcome.error = "none"
    /\ Len(results) = 8
    /\ results[1].value # results[5].value

(***************************************************************************)
(* qgis_vector_tools.py.  A layer is a record [kind, crs, fields,          *)
(* features]; kind is QGis' geometry type (0 point, 1 line, 2 polygon);    *)
(* a feature is [geom, attrs]; its id is its position in the layer.        *)
(* A feature request is modelled by the set of feature ids it lets through.*)
(***************************************************************************)
Layer(kind, crs, fields, features) ==
    [kind |-> kind, crs |-> crs, fields |-> fields, features |-> features]

SeqsUpTo(S, n) == UNION {[1..k -> S] : k \in 0..n}

RECURSIVE Filtered(_, _, _)
Filtered(features, req, i) ==
    IF i > Len(features) THEN <<>>
    ELSE (IF i \in req THEN <<features[i]>> ELSE <<>>) \o Filtered(features, req, i + 1)

\* vector.getFeatures(request): the features the request lets through, in layer order.
getFeatures(layer, req) == Filtered(layer.features, req, 1)

\* provider.addFeatures([feature])
addFeatures(layer, feature) ==
    [layer EXCEPT !.features = Append(@, feature)]

GenderUnchanged == UNCHANGED genderVars

(***************************************************************************)
(* points_to_rectangles(points, dx, dy)                                    *)
(***************************************************************************)
\* The number of points of the input layer.
MaxPoints == 2

PointCoords == {-1, 2}
PointAttrs == {<<"a">>, <<"b">>}
Extents == {1, 3}
PointFeatures == [geom : PointCoords \X PointCoords, attrs : PointAttrs]
PointLayers ==
    {Layer(0, "EPSG:4326", <<"name">>, fs) : fs \in SeqsUpTo(PointFeatures, MaxPoints)}

RectangleRingUpwards(x, y, w, h) ==
    << <<x, y>>, <<x + w, y>>, <<x + w, y + h>>, <<x, y + h>> >>
\* QgsGeometry.fromPolygon([[QgsPoint(x, y), QgsPoint(x + dx, y), ...]]): the ring.
RectangleRing(x, y, w, h) ==
    << <<x, y>>, <<x + w, y>>, <<x + w, y - h>>, <<x, y - h>> >>

\* Lines 46-56: the memory layer 'polygons' with the fields of the points.
RectStart ==
    /\ pc = "start"
    /\ polygons' = Some(Layer(2, vector[1].crs, vector[1].fields, <<>>))
    /\ cursor' = 0
    /\ pc' = "loop"
    /\ UNCHANGED <<vector, request, error, dx, dy, unionVars, splitVars>>
    /\ GenderUnchanged

\* Lines 57-70: one iteration of 'for feature in points.getFeatures()'.
RectFeature ==
    /\ pc = "loop"
    /\ cursor < Len(vector[1].features)
    /\ LET feature == vector[1].features[cursor + 1]
           attrs == feature.attrs
           x == feature.geom[1]
           y == feature.geom[2]
           g == RectangleRing(x, y, dx, dy)
           polygon_feat == [geom |-> g, attrs |-> attrs]
       IN  polygons' = Some(addFeatures(polygons[1], polygon_feat))
    /\ cursor' = cursor + 1
    /\ UNCHANGED <<pc, vector, request, error, dx, dy, unionVars, splitVars>>
    /\ GenderUnchanged

\* Lines 71-73: commitChanges and return.
RectReturn ==
    /\ pc = "loop"
    /\ cursor = Len(vector[1].features)
    /\ pc' = "done"
    /\ UNCHANGED <<cursor, vector, request, error, rectVars, unionVars, splitVars>>
    /\ GenderUnchanged

InitRect ==
    /\ GenderIdle /\ UnionIdle /\ SplitIdle
    /\ pc = "start" /\ cursor = 0 /\ request = {} /\ error = "none"
    /\ vector \in {Some(l) : l \in PointLayers}
    /\ dx \in Extents /\ dy \in Extents
    /\ polygons = None

NextRect == RectStart \/ RectFeature \/ RectReturn

SpecRect == InitRect /\ [][NextRect]_vars

\* C10: points_to_rectangles returns a layer with the schema of the points and one
\* feature per point, in input order; the feature of a point (x, y) with attributes A
\* has the ring (x,y), (x+dx,y), (x+dx,y-dy), (x,y-dy) and the attributes A.
C10_OneRectanglePerPoint ==
    pc = "done" =>
        LET ins == vector[1].features
            outs == polygons[1].features
        IN  /\ polygons[1].fields = vector[1].fields
            /\ polygons[1].kind = 2
            /\ Len(outs) = Len(ins)
            /\ \A i \in 1..Len(ins) :
                  LET x == ins[i].geom[1]
                      y == ins[i].geom[2]
                  IN  /\ outs[i].geom = << <<x, y>>, <<x + dx, y>>,
                                          <<x + dx, y - dy>>, <<x, y - dy>> >>
                      /\ outs[i].attrs = ins[i].attrs

\* C10 happens: two different points with different attributes were expanded.
C10_Witness ==
    /\ pc = "done"
    /\ Len(vector[1].features) = 2
    /\ vector[1].features[1] # vector[1].features[2]
    /\ vector[1].features[1].attrs # vector[1].features[2].attrs
    /\ Len(polygons[1].features) = 2
    /\ dx # dy

(***************************************************************************)
(* The geometry engine, as far as union_geometry and split_by_polygon use  *)
(* it.  The plane is a strip of cells 1..NCells.  A geometry covers each   *)
(* cell not at all (level 0), along the line segment crossing it (level 1) *)
(* or wholly (level 2): [line, area, valid] with line and area disjoint.   *)
(* The set operations are those of the point sets; 'valid' is the engine's *)
(* validity of the geometry.                                               *)
(***************************************************************************)
NCells == 3
Cells == 1..NCells

Geom(line, area, valid) == [line |-> line, area |-> area, valid |-> valid]
Level(g, c) == IF c \in g.area THEN 2 ELSE IF c \in g.line THEN 1 ELSE 0
Min(a, b) == IF a <= b THEN a ELSE b

\* QgsGeometry.type(): 1 for a line, 2 for a polygon.
type(g) == IF g.area # {} THEN 2 ELSE 1

\* a.intersects(b)
intersects(a, b) == \E c \in Cells : Min(Level(a, c), Level(b, c)) >= 1

\* a.intersection(b)
intersection(a, b) ==
    Geom({c \in Cells : Min(Level(a, c), Level(b, c)) = 1},
         {c \in Cells : Min(Level(a, c), Level(b, c)) = 2}, TRUE)

\* a.difference(b): what of a is left outside b (a polygon is not cut by a line).
difference(a, b) ==
    Geom({c \in Cells : Level(a, c) = 1 /\ Level(b, c) = 0},
         {c \in Cells : Level(a, c) = 2 /\ Level(b, c) < 2}, TRUE)

\* a.symDifference(b): the region present in exactly one of a and b.
symDifference(a, b) ==
    LET ab == difference(a, b)
        ba == difference(b, a)
    IN  Geom((ab.line \cup ba.line) \ (ab.area \cup ba.area), ab.area \cup ba.area, TRUE)

\* The cells a run of one level starting at c reaches.
RunEnd(g, c) ==
    CHOOSE e \in c..NCells :
        /\ \A x \in c..e : Level(g, x) = Level(g, c)
        /\ (e = NCells \/ Level(g, e + 1) # Level(g, c))

RECURSIVE PartsFrom(_, _)
PartsFrom(g, c) ==
    IF c > NCells THEN <<>>
    ELSE IF Level(g, c) = 0 THEN PartsFrom(g, c + 1)
    ELSE LET e == RunEnd(g, c)
             part == IF Level(g, c) = 1 THEN Geom(c..e, {}, TRUE)
                     ELSE Geom({}, c..e, TRUE)
         IN  <<part>> \o PartsFrom(g, e + 1)

\* g.asGeometryCollection(): the connected parts of g, each of one kind.
asGeometryCollection(g) == PartsFrom(g, 1)

\* a.combine(b): the union; with an invalid operand the engine gives no
\* geometry at all or an invalid one.
combine(a, b) ==
    LET u == Geom((a.line \cup b.line) \ (a.area \cup b.area), a.area \cup b.area,
                  a.valid /\ b.valid)
    IN  IF u.valid THEN {Some(u)} ELSE {None, Some(u)}

\* g.isGeosValid()
isGeosValid(g) == g.valid

\* The number of features of the input layer of split_by_polygon, of union_geometry.
MaxFeatures == 2
MaxUnionFeatures == 3

NonEmpty == SUBSET Cells \ {{}}
Polygons(valids) == {Geom({}, a, v) : a \in NonEmpty, v \in valids}
Lines(valids) == {Geom(l, {}, v) : l \in NonEmpty, v \in valids}

(***************************************************************************)
(* union_geometry(vector, request)                                         *)
(***************************************************************************)
UnionLayers ==
    {Layer(2, "EPSG:4326", <<"id">>, [i \in DOMAIN gs |-> [geom |-> gs[i], attrs |-> <<i>>]]) :
        gs \in SeqsUpTo(Polygons(BOOLEAN), MaxUnionFeatures)}

\* Line 96: the first geometry becomes the accumulator as it is.
FirstGeometry(feature) == Some(feature.geom)

\* Lines 94-104: one iteration of 'for feature in vector.getFeatures(request)'.
UnionFeature ==
    /\ pc = "loop"
    /\ cursor < Len(getFeatures(vector[1], request))
    /\ LET feature == getFeatures(vector[1], request)[cursor + 1]
       IN  IF result_geometry = None
           THEN result_geometry' = FirstGeometry(feature)
           ELSE \E tmp_geometry \in combine(result_geometry[1], feature.geom) :
                   \* None.isGeosValid() raises AttributeError, which is passed over
                   IF tmp_geometry # None /\ isGeosValid(tmp_geometry[1])
                   THEN result_geometry' = tmp_geometry
                   ELSE UNCHANGED result_geometry
    /\ cursor' = cursor + 1
    /\ UNCHANGED <<pc, vector, request, error, rectVars, splitVars>>
    /\ GenderUnchanged

\* Line 105: return result_geometry.
UnionReturn ==
    /\ pc = "loop"
    /\ cursor = Len(getFeatures(vector[1], request))
    /\ pc' = "done"
    /\ UNCHANGED <<cursor, vector, request, error, rectVars, unionVars, splitVars>>
    /\ GenderUnchanged

\* Line 93: result_geometry = None.
InitUnion ==
    /\ GenderIdle /\ RectIdle /\ SplitIdle
    /\ pc = "loop" /\ cursor = 0 /\ error = "none"
    /\ vector \in {Some(l) : l \in UnionLayers}
    /\ request \in SUBSET (1..MaxUnionFeatures)
    /\ result_geometry = None

NextUnion == UnionFeature \/ UnionReturn

SpecUnion == InitUnion /\ [][NextUnion]_vars

\* The matching features whose geometry is valid, and the union of their geometries.
ValidMatching == {i \in request \cap DOMAIN vector[1].features :
                     isGeosValid(vector[1].features[i].geom)}
UnionOfValid ==
    Geom({}, UNION {vector[1].features[i].geom.area : i \in ValidMatching}, TRUE)

\* C8: union_geometry does not raise, and when some matching geometry is valid it
\* returns the union of the valid matching geometries: a geometry whose combination
\* is invalid is left out, wherever it stands in the iteration order.
C8_PoisonExcluded ==
    /\ error = "none"
    /\ (pc = "done" /\ ValidMatching # {}) => result_geometry = Some(UnionOfValid)

\* C9: what union_geometry returns is None or a valid geometry; it is None when
\* every matching geometry is invalid and when no feature matches.
C9_NoneOrValid ==
    pc = "done" =>
        /\ result_geometry = None \/ isGeosValid(result_geometry[1])
        /\ ValidMatching = {} => result_geometry = None

(***************************************************************************)
(* split_by_polygon(vector, polygon, request, mark_value)                  *)
(***************************************************************************)
\* The attribute schemas of the input: without and with the field to mark.
SplitSchemas == {<<"id">>, <<"id", "mark">>}
\* The attributes of feature i: its id, and 5 in the field 'mark' if there is one.
SplitAttrs(fields, i) == IF Len(fields) = 1 THEN <<i>> ELSE <<i, 5>>
MarkValues == {None, Some(<<"mark", 1>>)}
UnknownKind == 3

SplitFeaturesOf(gs, fields) ==
    [i \in DOMAIN gs |-> [geom |-> gs[i], attrs |-> SplitAttrs(fields, i)]]
SplitLayers ==
    {Layer(1, "EPSG:4326", fields, SplitFeaturesOf(gs, fields)) :
        gs \in SeqsUpTo(Lines({TRUE}), MaxFeatures), fields \in SplitSchemas}
    \cup
    {Layer(2, "EPSG:4326", fields, SplitFeaturesOf(gs, fields)) :
        gs \in SeqsUpTo(Polygons({TRUE}), MaxFeatures), fields \in SplitSchemas}
    \cup
    {Layer(k, "EPSG:4326", <<"id">>, <<>>) : k \in {0, UnknownKind}}

\* fields.indexFromName(name) / provider.fieldNameIndex(name): 0-based, -1 if absent.
fieldNameIndex(fields, name) ==
    IF \E i \in DOMAIN fields : fields[i] = name
    THEN (CHOOSE i \in DOMAIN fields : fields[i] = name) - 1
    ELSE -1

\* _set_feature(geometry, attributes)
_set_feature(geometry, attributes) == [geom |-> geometry, attrs |-> attributes]

\* _update_attr_list(attributes, index, value, add_attribute)
_update_attr_list(attributes, index, value, add_attribute) ==
    IF add_attribute THEN Append(attributes, value)
    ELSE [attributes EXCEPT ![index + 1] = value]

\* The parts of a collection that have the kind of the initial geometry.
RECURSIVE SameKind(_, _)
SameKind(parts, geometry_type) ==
    IF parts = <<>> THEN <<>>
    ELSE (IF type(Head(parts)) = geometry_type THEN <<Head(parts)>> ELSE <<>>)
         \o SameKind(Tail(parts), geometry_type)

\* One feature per part, all with the same attributes.
RECURSIVE FeaturesOf(_, _)
FeaturesOf(parts, attributes) ==
    IF parts = <<>> THEN <<>>
    ELSE <<_set_feature(Head(parts), attributes)>> \o FeaturesOf(Tail(parts), attributes)

\* Lines 156-195: the result layer, its fields and the index of the field to mark.
SplitPrepare ==
    /\ pc = "start"
    /\ IF vector[1].kind \notin {1, 2}
       THEN /\ pc' = "raised"
            /\ error' = "WrongDataTypeException"
            /\ UNCHANGED <<result_layer, new_field_added, target_field_index>>
       ELSE LET fields == vector[1].fields
                add == mark_value # None /\ fieldNameIndex(fields, mark_value[1][1]) = -1
                result_fields == IF add THEN Append(fields, mark_value[1][1]) ELSE fields
                index == fieldNameIndex(result_fields, mark_value[1][1])
            IN  /\ result_layer' = Some(Layer(vector[1].kind, vector[1].crs,
                                              result_fields, <<>>))
                /\ new_field_added' = add
                /\ IF mark_value = None
                   THEN /\ UNCHANGED target_field_index
                        /\ pc' = "loop" /\ UNCHANGED error
                   ELSE /\ target_field_index' = Bound(index)
                        /\ IF index = -1
                           THEN pc' = "raised" /\ error' = "WrongDataTypeException"
                           ELSE pc' = "loop" /\ UNCHANGED error
    /\ UNCHANGED <<cursor, vector, request, polygon, mark_value, new_attributes,
                   rectVars, unionVars>>
    /\ GenderUnchanged

\* What one iteration leaves behind: the features added to the result layer, the
\* binding of new_attributes, and the exception that ended it, if any.
Iteration(added, attrs, err) == [added |-> added, new_attributes |-> attrs, error |-> err]

\* Lines 221-234: the parts of the symmetric difference, marked 0.  It starts from
\* what the intersection loop left behind.
OutsideParts(initial_geom, attributes, before) ==
    LET diff_geom == SameKind(asGeometryCollection(symDifference(initial_geom, polygon[1])),
                              type(initial_geom))
    IN  IF diff_geom = <<>> THEN before
        ELSE IF target_field_index = Unbound
        THEN Iteration(before.added, before.new_attributes, "UnboundLocalError")
        ELSE LET attrs == _update_attr_list(attributes, target_field_index[1], 0,
                                            new_field_added)
             IN  Iteration(before.added \o FeaturesOf(diff_geom, attrs), Bound(attrs), "none")

\* Lines 203-219: the parts of the intersection, marked if a mark is asked for.
InsideParts(initial_geom, attributes) ==
    LET parts == SameKind(asGeometryCollection(intersection(initial_geom, polygon[1])),
                          type(initial_geom))
        attrs == IF mark_value # None
                 THEN Bound(_update_attr_list(attributes, target_field_index[1],
                                              mark_value[1][2], new_field_added))
                 ELSE new_attributes
    IN  IF parts = <<>> THEN Iteration(<<>>, new_attributes, "none")
        ELSE IF attrs = Unbound THEN Iteration(<<>>, Unbound, "UnboundLocalError")
        ELSE Iteration(FeaturesOf(parts, attrs[1]), attrs, "none")

\* Lines 235-244: a feature that does not intersect the polygon.
Untouched(initial_geom, attributes) ==
    LET attrs == IF mark_value # None
                 THEN Bound(_update_attr_list(attributes, target_field_index[1], 0,
                                              new_field_added))
                 ELSE new_attributes
    IN  IF attrs = Unbound THEN Iteration(<<>>, Unbound, "UnboundLocalError")
        ELSE Iteration(<<_set_feature(initial_geom, attrs[1])>>, attrs, "none")

\* Lines 199-244: the body of the loop for one feature.
SplitOne(initial_feature) ==
    LET initial_geom == initial_feature.geom
        attributes == initial_feature.attrs
    IN  IF intersects(polygon[1], initial_geom)
        THEN LET inside == InsideParts(initial_geom, attributes)
             IN  IF inside.error # "none" THEN inside
                 ELSE OutsideParts(initial_geom, attributes, inside)
        ELSE Untouched(initial_geom, attributes)

\* Lines 198-244: one iteration of 'for initial_feature in vector.getFeatures(request)'.
SplitFeature ==
    /\ pc = "loop"
    /\ cursor < Len(getFeatures(vector[1], request))
    /\ LET done == SplitOne(getFeatures(vector[1], request)[cursor + 1])
       IN  /\ result_layer' = Some([result_layer[1] EXCEPT !.features = @ \o done.added])
           /\ new_attributes' = done.new_attributes
           /\ error' = done.error
           /\ pc' = IF done.error = "none" THEN "loop" ELSE "raised"
    /\ cursor' = cursor + 1
    /\ UNCHANGED <<vector, request, polygon, mark_value, new_field_added,
                   target_field_index, rectVars, unionVars>>
    /\ GenderUnchanged

\* Lines 245-248: commitChanges, updateExtents, return result_layer.
SplitReturn ==
    /\ pc = "loop"
    /\ cursor = Len(getFeatures(vector[1], request))
    /\ pc' = "done"
    /\ UNCHANGED <<cursor, vector, request, error, rectVars, unionVars, splitVars>>
    /\ GenderUnchanged

InitSplit ==
    /\ GenderIdle /\ RectIdle /\ UnionIdle
    /\ pc = "start" /\ cursor = 0 /\ error = "none"
    /\ vector \in {Some(l) : l \in SplitLayers}
    /\ request \in SUBSET (1..MaxFeatures)
    /\ polygon \in {Some(g) : g \in Polygons({TRUE})}
    /\ mark_value \in MarkValues
    /\ result_layer = None
    /\ new_field_added = FALSE
    /\ target_field_index = Unbound
    /\ new_attributes = Unbound

NextSplit == SplitPrepare \/ SplitFeature \/ SplitReturn

SpecSplit == InitSplit /\ [][NextSplit]_vars

(***************************************************************************)
(* Claims about split_by_polygon, checked under SpecSplit.  A feature of   *)
(* the result is traced to its source by the attribute 'id', which the     *)
(* split never writes.                                                     *)
(***************************************************************************)
SplitSelected == getFeatures(vector[1], request)
SplitOutputs(f) ==
    {out \in {result_layer[1].features[j] : j \in DOMAIN result_layer[1].features} :
        out.attrs[1] = f.attrs[1]}
SelectedFeatures == {SplitSelected[i] : i \in DOMAIN SplitSelected}
MarkOf(out) == out.attrs[target_field_index[1] + 1]
Within(g, h) == \A c \in Cells : Level(g, c) <= Level(h, c)
SinglePart(g) == Len(asGeometryCollection(g)) = 1
\* The cells a set of features covers, by level.
Covered(outs, level) == {c \in Cells : \E out \in outs : Level(out.geom, c) = level}
SplitEnded == pc \in {"done", "raised"} /\ error # "WrongDataTypeException"

\* C4: a source feature of one part lying fully inside the splitting polygon has
\* exactly one feature in the output: its inside part, carrying the mark value; no
\* part marked 0 is emitted for it.
C4_InsideOnePart ==
    (pc = "done" /\ mark_value # None) =>
        \A f \in SelectedFeatures :
            (Within(f.geom, polygon[1]) /\ SinglePart(f.geom)) =>
                /\ Cardinality(SplitOutputs(f)) = 1
                /\ \A out \in SplitOutputs(f) :
                      MarkOf(out) = mark_value[1][2] /\ out.geom = f.geom

\* C5: for a source feature that intersects the polygon, the parts marked 0 are
\* exactly what of the feature lies outside the polygon; no part has a region that
\* is not of the source geometry, and all parts together cover the source geometry.
C5_OutsideIsOwnRemainder ==
    (pc = "done" /\ mark_value # None) =>
        \A f \in SelectedFeatures :
            intersects(polygon[1], f.geom) =>
                LET outs == SplitOutputs(f)
                    outside == {out \in outs : MarkOf(out) = 0}
                    rest == difference(f.geom, polygon[1])
                IN  /\ \A out \in outs : Within(out.geom, f.geom)
                    /\ Covered(outside, 1) = rest.line
                    /\ Covered(outside, 2) = rest.area
                    /\ Covered(outs, 1) = f.geom.line
                    /\ Covered(outs, 2) = f.geom.area

\* C6: a source feature that does not intersect the polygon has exactly one feature
\* in the output, with the same geometry; its mark field is 0 when a mark is asked
\* for, and without a mark it carries its own attributes unchanged.
C6_UntouchedOnce ==
    SplitEnded =>
        \A f \in SelectedFeatures :
            ~intersects(polygon[1], f.geom) =>
                /\ Cardinality(SplitOutputs(f)) = 1
                /\ \A out \in SplitOutputs(f) :
                      /\ out.geom = f.geom
                      /\ mark_value # None => MarkOf(out) = 0
                      /\ mark_value = None => out.attrs = f.attrs

\* C7: without a mark directive the split of a line or polygon layer does not
\* raise, and every feature of the result carries the attributes of its source
\* feature, as many as the source schema has fields.
C7_MarkIsOptional ==
    (mark_value = None /\ vector[1].kind \in {1, 2}) =>
        /\ error = "none"
        /\ pc = "done" =>
              \A j \in DOMAIN result_layer[1].features :
                  LET out == result_layer[1].features[j]
                  IN  /\ Len(out.attrs) = Len(vector[1].fields)
                      /\ \E f \in SelectedFeatures : out.attrs = f.attrs

====
